---------------------------- MODULE Spec2Model ----------------------------
(***************************************************************************)
(* Model of hyphe_backend/lib/urllru.py: the URL <-> LRU transcoder, the   *)
(* LRU cleaning pipeline, head/node resolution and LRU variations.         *)
(*                                                                         *)
(* A text is a sequence of one-character strings: "s:a|" is                *)
(* <<"s", ":", "a", "|">>.  A byte that is not printable ASCII is written  *)
(* "xNN" (its hexadecimal code), and so is the backquote ("x60"), so that  *)
(* percent-decoding is total over the 256 byte values.  Texts have no line *)
(* terminators, so `$` and `.` of the regular expressions mean "end of     *)
(* text" and "any character".                                              *)
(*                                                                         *)
(* The library runs on Python 2, where a text is a str (bytes) or a        *)
(* unicode.  A text goes with a flag, unicode, that tells which; a unicode *)
(* text is held as its UTF-8 bytes.  Joining, concatenating or formatting  *)
(* a unicode text with a str decodes the str as ASCII, which raises        *)
(* UnicodeDecodeError on a byte above 127.  lower() folds A-Z in a str and *)
(* every cased character in a unicode; encode('utf-8') joins a surrogate   *)
(* pair of a unicode into one character.  The actions pass str texts;      *)
(* unicode texts come out of uri_decode and uri_encode there, and are      *)
(* ASCII when they leave the library.                                      *)
(*                                                                         *)
(* f_typed(text, unicode, ...) is function f on a text of either type;     *)
(* f(text) is f on a str, with the default keyword arguments.              *)
(*                                                                         *)
(* A call that raises gives [err |-> <exception name>, val |-> <<>>,       *)
(* unicode |-> FALSE]; a call that returns gives [err |-> "none",          *)
(* val |-> <value>, unicode |-> <the value is a unicode text>].            *)
(***************************************************************************)
EXTENDS Naturals, Sequences, FiniteSets

VARIABLES fn, args, ret, prev

vars == <<fn, args, ret, prev>>

\* a returned value that is not a unicode text
Ok(v) == [err |-> "none", val |-> v, unicode |-> FALSE]

\* a returned text and its type
OkText(v, u) == [err |-> "none", val |-> v, unicode |-> u]

Raise(e) == [err |-> e, val |-> <<>>, unicode |-> FALSE]

\* F on the value of r, or r itself when r is a raised exception: the
\* statements that follow a call which may raise
Then(r, F(_)) == IF r.err # "none" THEN r ELSE F(r.val)

\* Then, for an F that needs the type of the text too
ThenText(r, F(_, _)) == IF r.err # "none" THEN r ELSE F(r.val, r.unicode)

----------------------------------------------------------------------------
(* Characters.                                                             *)

\* chr(i) is Chr[i + 1], for the 256 byte values.
Chr ==
 <<
    "x00", "x01", "x02", "x03", "x04", "x05", "x06", "x07",
    "x08", "x09", "x0A", "x0B", "x0C", "x0D", "x0E", "x0F",
    "x10", "x11", "x12", "x13", "x14", "x15", "x16", "x17",
    "x18", "x19", "x1A", "x1B", "x1C", "x1D", "x1E", "x1F",
    " ", "!", "\"", "#", "$", "%", "&", "'",
    "(", ")", "*", "+", ",", "-", ".", "/",
    "0", "1", "2", "3", "4", "5", "6", "7",
    "8", "9", ":", ";", "<", "=", ">", "?",
    "@", "A", "B", "C", "D", "E", "F", "G",
    "H", "I", "J", "K", "L", "M", "N", "O",
    "P", "Q", "R", "S", "T", "U", "V", "W",
    "X", "Y", "Z", "[", "\\", "]", "^", "_",
    "x60", "a", "b", "c", "d", "e", "f", "g",
    "h", "i", "j", "k", "l", "m", "n", "o",
    "p", "q", "r", "s", "t", "u", "v", "w",
    "x", "y", "z", "{", "|", "}", "~", "x7F",
    "x80", "x81", "x82", "x83", "x84", "x85", "x86", "x87",
    "x88", "x89", "x8A", "x8B", "x8C", "x8D", "x8E", "x8F",
    "x90", "x91", "x92", "x93", "x94", "x95", "x96", "x97",
    "x98", "x99", "x9A", "x9B", "x9C", "x9D", "x9E", "x9F",
    "xA0", "xA1", "xA2", "xA3", "xA4", "xA5", "xA6", "xA7",
    "xA8", "xA9", "xAA", "xAB", "xAC", "xAD", "xAE", "xAF",
    "xB0", "xB1", "xB2", "xB3", "xB4", "xB5", "xB6", "xB7",
    "xB8", "xB9", "xBA", "xBB", "xBC", "xBD", "xBE", "xBF",
    "xC0", "xC1", "xC2", "xC3", "xC4", "xC5", "xC6", "xC7",
    "xC8", "xC9", "xCA", "xCB", "xCC", "xCD", "xCE", "xCF",
    "xD0", "xD1", "xD2", "xD3", "xD4", "xD5", "xD6", "xD7",
    "xD8", "xD9", "xDA", "xDB", "xDC", "xDD", "xDE", "xDF",
    "xE0", "xE1", "xE2", "xE3", "xE4", "xE5", "xE6", "xE7",
    "xE8", "xE9", "xEA", "xEB", "xEC", "xED", "xEE", "xEF",
    "xF0", "xF1", "xF2", "xF3", "xF4", "xF5", "xF6", "xF7",
    "xF8", "xF9", "xFA", "xFB", "xFC", "xFD", "xFE", "xFF"
 >>

Ord == [c \in {Chr[i] : i \in 1..Len(Chr)} |-> (CHOOSE i \in 1..Len(Chr) : Chr[i] = c) - 1]

Digits == {"0", "1", "2", "3", "4", "5", "6", "7", "8", "9"}
UpperLetters == {Chr[i + 1] : i \in 65..90}
LowerLetters == {Chr[i + 1] : i \in 97..122}
HexLetters == {"a", "b", "c", "d", "e", "f", "A", "B", "C", "D", "E", "F"}
\* the whitespace class of Python's re on byte strings: space, TAB, LF, VT, FF, CR
WhiteSpace == {" ", "x09", "x0A", "x0B", "x0C", "x0D"}

UpperHex == <<"0", "1", "2", "3", "4", "5", "6", "7", "8", "9", "A", "B", "C", "D", "E", "F">>

IsHex(c) == c \in Digits \cup HexLetters

HexVal(c) ==
    IF c \in Digits THEN Ord[c] - 48
    ELSE IF c \in UpperLetters THEN Ord[c] - 55
    ELSE Ord[c] - 87

\* str.lower() on one character
LowerChar(c) == IF c \in UpperLetters THEN Chr[Ord[c] + 33] ELSE c

----------------------------------------------------------------------------
(* Python string primitives.                                               *)

Take(s, n) == SubSeq(s, 1, n)
Drop(s, n) == SubSeq(s, n + 1, Len(s))

\* s[i-1:].startswith(p), i counted from 1
StartsWithAt(s, p, i) ==
    /\ i + Len(p) - 1 <= Len(s)
    /\ \A k \in 1..Len(p) : s[i + k - 1] = p[k]

StartsWith(s, p) == StartsWithAt(s, p, 1)
EndsWith(s, p) == Len(p) <= Len(s) /\ StartsWithAt(s, p, Len(s) - Len(p) + 1)

\* p in s
Contains(s, p) == \E i \in 1..(Len(s) + 1) : StartsWithAt(s, p, i)

\* the number of leading characters of s, from index i on, that are in set cs
RECURSIVE RunLen(_, _, _)
RunLen(s, i, cs) ==
    IF i <= Len(s) /\ s[i] \in cs THEN 1 + RunLen(s, i + 1, cs) ELSE 0

\* the number of leading characters of s, from index i on, that are not in cs
RECURSIVE RunLenNot(_, _, _)
RunLenNot(s, i, cs) ==
    IF i <= Len(s) /\ s[i] \notin cs THEN 1 + RunLenNot(s, i + 1, cs) ELSE 0

Lower(s) == [i \in 1..Len(s) |-> LowerChar(s[i])]

RECURSIVE RStrip(_, _)
RStrip(s, c) ==
    IF s # <<>> /\ s[Len(s)] = c THEN RStrip(Take(s, Len(s) - 1), c) ELSE s

RECURSIVE LStrip(_, _)
LStrip(s, c) ==
    IF s # <<>> /\ s[1] = c THEN LStrip(Tail(s), c) ELSE s

Strip(s, c) == LStrip(RStrip(s, c), c)

\* sep.join(parts)
RECURSIVE Join(_, _)
Join(parts, sep) ==
    IF parts = <<>> THEN <<>>
    ELSE IF Len(parts) = 1 THEN parts[1]
    ELSE parts[1] \o sep \o Join(Tail(parts), sep)

\* the str s can be decoded as ASCII
IsAscii(s) == \A i \in 1..Len(s) : Ord[s[i]] < 128

\* the texts of list, all of one type
Texts(list, unicode) == [i \in 1..Len(list) |-> OkText(list[i], unicode)]

\* prefix + text for a str literal prefix (ASCII)
Prefixed(prefix, text) == OkText(prefix \o text.val, text.unicode)

\* sep.join(texts), t1 + t2 + ... (sep empty) and "%s<sep>%s" % (t1, t2), sep a
\* str literal (ASCII): the texts are evaluated first, so the first that raised
\* is what the statement raises; the result is unicode when one of the texts is,
\* and then the str ones are decoded as ASCII
JoinTexts(texts, sep) ==
    LET raised == {i \in 1..Len(texts) : texts[i].err # "none"}
        strs == {i \in 1..Len(texts) : ~texts[i].unicode}
    IN  IF raised # {} THEN texts[CHOOSE i \in raised : \A j \in raised : i <= j]
        ELSE IF strs # 1..Len(texts) /\ \E i \in strs : ~IsAscii(texts[i].val)
        THEN Raise("UnicodeDecodeError")
        ELSE OkText(Join([i \in 1..Len(texts) |-> texts[i].val], sep), strs # 1..Len(texts))

\* s.split(c) for a one-character separator c
RECURSIVE Split(_, _)
Split(s, c) ==
    LET n == RunLenNot(s, 1, {c})
    IN  IF n = Len(s) THEN <<s>>
        ELSE <<Take(s, n)>> \o Split(Drop(s, n + 1), c)

\* s.replace(old, new), old not empty: every non-overlapping occurrence, left to right
RECURSIVE Replace(_, _, _)
Replace(s, old, new) ==
    IF s = <<>> THEN <<>>
    ELSE IF StartsWith(s, old) THEN new \o Replace(Drop(s, Len(old)), old, new)
    ELSE <<s[1]>> \o Replace(Tail(s), old, new)

\* s.replace(old, new, 1)
RECURSIVE ReplaceFirst(_, _, _)
ReplaceFirst(s, old, new) ==
    IF s = <<>> THEN <<>>
    ELSE IF StartsWith(s, old) THEN new \o Drop(s, Len(old))
    ELSE <<s[1]>> \o ReplaceFirst(Tail(s), old, new)

\* s.count(p), p not empty
RECURSIVE Count(_, _)
Count(s, p) ==
    IF s = <<>> THEN 0
    ELSE IF StartsWith(s, p) THEN 1 + Count(Drop(s, Len(p)), p)
    ELSE Count(Tail(s), p)

Reverse(s) == [i \in 1..Len(s) |-> s[Len(s) + 1 - i]]

----------------------------------------------------------------------------
(* urllib.quote / urllib.unquote (Python 2) and the uri_* helpers.         *)

AlwaysSafe == UpperLetters \cup LowerLetters \cup Digits \cup {"_", ".", "-"}

\* urllib.unquote: "%XX" with two hexadecimal digits becomes the byte, any
\* other "%" stays
RECURSIVE unquote(_)
unquote(s) ==
    IF s = <<>> THEN <<>>
    ELSE IF s[1] = "%" /\ Len(s) >= 3 /\ IsHex(s[2]) /\ IsHex(s[3])
         THEN <<Chr[16 * HexVal(s[2]) + HexVal(s[3]) + 1]>> \o unquote(Drop(s, 3))
    ELSE <<s[1]>> \o unquote(Tail(s))

\* urllib.quote: every byte outside always_safe + safe becomes "%XX"
RECURSIVE quote(_, _)
quote(s, safe) ==
    IF s = <<>> THEN <<>>
    ELSE (IF s[1] \in AlwaysSafe \cup safe THEN <<s[1]>>
          ELSE <<"%", UpperHex[(Ord[s[1]] \div 16) + 1], UpperHex[(Ord[s[1]] % 16) + 1]>>)
         \o quote(Tail(s), safe)

\* s[i] is a UTF-8 continuation byte
Continues(s, i) == i <= Len(s) /\ Ord[s[i]] \in 128..191

\* s.decode('utf-8') does not raise (Python 2 decodes surrogates)
RECURSIVE Utf8Valid(_)
Utf8Valid(s) ==
    IF s = <<>> THEN TRUE
    ELSE IF Ord[s[1]] < 128 THEN Utf8Valid(Tail(s))
    ELSE IF Ord[s[1]] \in 194..223
    THEN Continues(s, 2) /\ Utf8Valid(Drop(s, 2))
    ELSE IF Ord[s[1]] \in 224..239
    THEN /\ Continues(s, 2) /\ Continues(s, 3)
         /\ (Ord[s[1]] = 224 => Ord[s[2]] >= 160)
         /\ Utf8Valid(Drop(s, 3))
    ELSE IF Ord[s[1]] \in 240..244
    THEN /\ Continues(s, 2) /\ Continues(s, 3) /\ Continues(s, 4)
         /\ (Ord[s[1]] = 240 => Ord[s[2]] >= 144)
         /\ (Ord[s[1]] = 244 => Ord[s[2]] <= 143)
         /\ Utf8Valid(Drop(s, 4))
    ELSE FALSE

\* unichr(c) for a code point c, in UTF-8
Utf8Of(c) ==
    IF c < 128 THEN <<Chr[c + 1]>>
    ELSE IF c < 2048 THEN <<Chr[192 + (c \div 64) + 1], Chr[128 + (c % 64) + 1]>>
    ELSE IF c < 65536
    THEN <<Chr[224 + (c \div 4096) + 1], Chr[128 + ((c \div 64) % 64) + 1],
           Chr[128 + (c % 64) + 1]>>
    ELSE <<Chr[240 + (c \div 262144) + 1], Chr[128 + ((c \div 4096) % 64) + 1],
           Chr[128 + ((c \div 64) % 64) + 1], Chr[128 + (c % 64) + 1]>>

\* the number of bytes of the UTF-8 character whose first byte is b
Utf8Len(b) == IF b < 192 THEN 1 ELSE IF b < 224 THEN 2 ELSE IF b < 240 THEN 3 ELSE 4

\* ord(c) for one UTF-8 character c
CodePoint(c) ==
    IF Len(c) = 1 THEN Ord[c[1]]
    ELSE IF Len(c) = 2 THEN (Ord[c[1]] - 192) * 64 + (Ord[c[2]] - 128)
    ELSE IF Len(c) = 3
    THEN (Ord[c[1]] - 224) * 4096 + (Ord[c[2]] - 128) * 64 + (Ord[c[3]] - 128)
    ELSE (Ord[c[1]] - 240) * 262144 + (Ord[c[2]] - 128) * 4096
         + (Ord[c[3]] - 128) * 64 + (Ord[c[4]] - 128)

\* the lowercase mapping of Python 2.7's unicode database (Unicode 5.2.0, one
\* code point to one code point): <<first, last, step, target>> maps the code
\* points first, first + step, ..., last to target, target + step, ...
LowerRanges ==
 <<
    <<65, 90, 1, 97>>, <<192, 214, 1, 224>>, <<216, 222, 1, 248>>,
    <<256, 302, 2, 257>>, <<304, 304, 1, 105>>, <<306, 310, 2, 307>>,
    <<313, 327, 2, 314>>, <<330, 374, 2, 331>>, <<376, 376, 1, 255>>,
    <<377, 381, 2, 378>>, <<385, 385, 1, 595>>, <<386, 388, 2, 387>>,
    <<390, 390, 1, 596>>, <<391, 391, 1, 392>>, <<393, 394, 1, 598>>,
    <<395, 395, 1, 396>>, <<398, 398, 1, 477>>, <<399, 399, 1, 601>>,
    <<400, 400, 1, 603>>, <<401, 401, 1, 402>>, <<403, 403, 1, 608>>,
    <<404, 404, 1, 611>>, <<406, 406, 1, 617>>, <<407, 407, 1, 616>>,
    <<408, 408, 1, 409>>, <<412, 412, 1, 623>>, <<413, 413, 1, 626>>,
    <<415, 415, 1, 629>>, <<416, 420, 2, 417>>, <<422, 422, 1, 640>>,
    <<423, 423, 1, 424>>, <<425, 425, 1, 643>>, <<428, 428, 1, 429>>,
    <<430, 430, 1, 648>>, <<431, 431, 1, 432>>, <<433, 434, 1, 650>>,
    <<435, 437, 2, 436>>, <<439, 439, 1, 658>>, <<440, 440, 1, 441>>,
    <<444, 444, 1, 445>>, <<452, 452, 1, 454>>, <<453, 453, 1, 454>>,
    <<455, 455, 1, 457>>, <<456, 456, 1, 457>>, <<458, 458, 1, 460>>,
    <<459, 475, 2, 460>>, <<478, 494, 2, 479>>, <<497, 497, 1, 499>>,
    <<498, 500, 2, 499>>, <<502, 502, 1, 405>>, <<503, 503, 1, 447>>,
    <<504, 542, 2, 505>>, <<544, 544, 1, 414>>, <<546, 562, 2, 547>>,
    <<570, 570, 1, 11365>>, <<571, 571, 1, 572>>, <<573, 573, 1, 410>>,
    <<574, 574, 1, 11366>>, <<577, 577, 1, 578>>, <<579, 579, 1, 384>>,
    <<580, 580, 1, 649>>, <<581, 581, 1, 652>>, <<582, 590, 2, 583>>,
    <<880, 882, 2, 881>>, <<886, 886, 1, 887>>, <<902, 902, 1, 940>>,
    <<904, 906, 1, 941>>, <<908, 908, 1, 972>>, <<910, 911, 1, 973>>,
    <<913, 929, 1, 945>>, <<931, 939, 1, 963>>, <<975, 975, 1, 983>>,
    <<984, 1006, 2, 985>>, <<1012, 1012, 1, 952>>, <<1015, 1015, 1, 1016>>,
    <<1017, 1017, 1, 1010>>, <<1018, 1018, 1, 1019>>, <<1021, 1023, 1, 891>>,
    <<1024, 1039, 1, 1104>>, <<1040, 1071, 1, 1072>>,
    <<1120, 1152, 2, 1121>>, <<1162, 1214, 2, 1163>>,
    <<1216, 1216, 1, 1231>>, <<1217, 1229, 2, 1218>>,
    <<1232, 1316, 2, 1233>>, <<1329, 1366, 1, 1377>>,
    <<4256, 4293, 1, 11520>>, <<7680, 7828, 2, 7681>>,
    <<7838, 7838, 1, 223>>, <<7840, 7934, 2, 7841>>, <<7944, 7951, 1, 7936>>,
    <<7960, 7965, 1, 7952>>, <<7976, 7983, 1, 7968>>,
    <<7992, 7999, 1, 7984>>, <<8008, 8013, 1, 8000>>,
    <<8025, 8031, 2, 8017>>, <<8040, 8047, 1, 8032>>,
    <<8072, 8079, 1, 8064>>, <<8088, 8095, 1, 8080>>,
    <<8104, 8111, 1, 8096>>, <<8120, 8121, 1, 8112>>,
    <<8122, 8123, 1, 8048>>, <<8124, 8124, 1, 8115>>,
    <<8136, 8139, 1, 8050>>, <<8140, 8140, 1, 8131>>,
    <<8152, 8153, 1, 8144>>, <<8154, 8155, 1, 8054>>,
    <<8168, 8169, 1, 8160>>, <<8170, 8171, 1, 8058>>,
    <<8172, 8172, 1, 8165>>, <<8184, 8185, 1, 8056>>,
    <<8186, 8187, 1, 8060>>, <<8188, 8188, 1, 8179>>, <<8486, 8486, 1, 969>>,
    <<8490, 8490, 1, 107>>, <<8491, 8491, 1, 229>>, <<8498, 8498, 1, 8526>>,
    <<8544, 8559, 1, 8560>>, <<8579, 8579, 1, 8580>>,
    <<9398, 9423, 1, 9424>>, <<11264, 11310, 1, 11312>>,
    <<11360, 11360, 1, 11361>>, <<11362, 11362, 1, 619>>,
    <<11363, 11363, 1, 7549>>, <<11364, 11364, 1, 637>>,
    <<11367, 11371, 2, 11368>>, <<11373, 11373, 1, 593>>,
    <<11374, 11374, 1, 625>>, <<11375, 11375, 1, 592>>,
    <<11376, 11376, 1, 594>>, <<11378, 11378, 1, 11379>>,
    <<11381, 11381, 1, 11382>>, <<11390, 11391, 1, 575>>,
    <<11392, 11490, 2, 11393>>, <<11499, 11501, 2, 11500>>,
    <<42560, 42590, 2, 42561>>, <<42594, 42604, 2, 42595>>,
    <<42624, 42646, 2, 42625>>, <<42786, 42798, 2, 42787>>,
    <<42802, 42862, 2, 42803>>, <<42873, 42875, 2, 42874>>,
    <<42877, 42877, 1, 7545>>, <<42878, 42886, 2, 42879>>,
    <<42891, 42891, 1, 42892>>, <<65313, 65338, 1, 65345>>,
    <<66560, 66599, 1, 66600>>
 >>

\* the lowercase of code point c, c itself when it has none
ToLowercase(c) ==
    LET hit == {i \in 1..Len(LowerRanges) :
                   /\ c >= LowerRanges[i][1] /\ c <= LowerRanges[i][2]
                   /\ (c - LowerRanges[i][1]) % LowerRanges[i][3] = 0}
    IN  IF hit = {} THEN c
        ELSE LowerRanges[CHOOSE i \in hit : TRUE][4]
             + (c - LowerRanges[CHOOSE i \in hit : TRUE][1])

\* unicode.lower(): every cased character is folded (a build whose unicode
\* holds code points up to 0x10FFFF, as Linux builds do)
RECURSIVE unicode_lower(_)
unicode_lower(s) ==
    IF s = <<>> THEN <<>>
    ELSE IF Utf8Len(Ord[s[1]]) <= Len(s) /\ Utf8Valid(Take(s, Utf8Len(Ord[s[1]])))
    THEN Utf8Of(ToLowercase(CodePoint(Take(s, Utf8Len(Ord[s[1]])))))
         \o unicode_lower(Drop(s, Utf8Len(Ord[s[1]])))
    ELSE <<s[1]>> \o unicode_lower(Tail(s))

\* text.lower(): str.lower() folds A-Z only
LowerText(s, unicode) == IF unicode THEN unicode_lower(s) ELSE Lower(s)

\* urllib.unquote of a unicode text: "%XX" becomes the character of code XX
\* (the unquoted bytes decoded as latin1)
RECURSIVE unquote_unicode(_)
unquote_unicode(s) ==
    IF s = <<>> THEN <<>>
    ELSE IF s[1] = "%" /\ Len(s) >= 3 /\ IsHex(s[2]) /\ IsHex(s[3])
         THEN Utf8Of(16 * HexVal(s[2]) + HexVal(s[3])) \o unquote_unicode(Drop(s, 3))
    ELSE <<s[1]>> \o unquote_unicode(Tail(s))

\* s holds a surrogate in first..last at index i: 0xD800-0xDBFF is ED A0-AF xx,
\* 0xDC00-0xDFFF is ED B0-BF xx
SurrogateAt(s, i, first, last) ==
    /\ i + 2 <= Len(s)
    /\ s[i] = Chr[237 + 1]
    /\ Ord[s[i + 1]] >= first /\ Ord[s[i + 1]] <= last
    /\ Ord[s[i + 2]] >= 128 /\ Ord[s[i + 2]] <= 191

\* text.encode('utf-8') of a unicode text: a high surrogate followed by a low
\* one is encoded as the one character the pair stands for, in four bytes; a
\* surrogate alone is encoded as it is, in three
RECURSIVE EncodeUtf8(_)
EncodeUtf8(s) ==
    IF s = <<>> THEN <<>>
    ELSE IF SurrogateAt(s, 1, 160, 175) /\ SurrogateAt(s, 4, 176, 191)
    THEN Utf8Of(65536 + (CodePoint(SubSeq(s, 1, 3)) - 55296) * 1024
                + (CodePoint(SubSeq(s, 4, 6)) - 56320))
         \o EncodeUtf8(Drop(s, 6))
    ELSE <<s[1]>> \o EncodeUtf8(Tail(s))

\* text.encode('utf-8') where it does not raise: a str that is ASCII is itself
Encoded(text, unicode) == IF unicode THEN EncodeUtf8(text) ELSE text

\* try: urllib.unquote(text.encode('utf-8')).decode('utf-8')
\* except: urllib.unquote(text)
\* encode raises on a str that is not ASCII, decode on bytes that are not UTF-8
uri_decode_typed(text, unicode) ==
    IF ~unicode /\ ~IsAscii(text) THEN OkText(unquote(text), FALSE)
    ELSE IF Utf8Valid(unquote(Encoded(text, unicode)))
    THEN OkText(unquote(Encoded(text, unicode)), TRUE)
    ELSE IF unicode THEN OkText(unquote_unicode(text), TRUE)
    ELSE OkText(unquote(text), FALSE)

uri_decode(text) == uri_decode_typed(text, FALSE)

\* try: urllib.quote(text.encode('utf-8'), safechars).decode('utf-8')
\* except: urllib.quote(text, safechars)
\* encode raises on a str that is not ASCII
uri_encode_typed(text, unicode, safechars) ==
    OkText(quote(Encoded(text, unicode), safechars), unicode \/ IsAscii(text))

uri_encode(text, safechars) == uri_encode_typed(text, FALSE, safechars)

\* uri_recode with query=False
uri_recode_typed(text, unicode, safechars) ==
    ThenText(uri_decode_typed(text, unicode), LAMBDA decoded, u :
        uri_encode_typed(decoded, u, safechars))

uri_recode(text, safechars) == uri_recode_typed(text, FALSE, safechars)

\* queryStems = (?:^|&)([^=]+)=([^&]+)
\* the match of queryStems that starts at index i (the "^" branch only at 1):
\* <<TRUE, key, value, index after the match>> or <<FALSE>>
QueryStemAt(s, i) ==
    LET try(k) ==
            \* k: index of the first character of the key
            LET kn == RunLenNot(s, k, {"="})
                vn == RunLenNot(s, k + kn + 1, {"&"})
            IN  IF kn >= 1 /\ k + kn <= Len(s) /\ vn >= 1
                THEN <<TRUE, SubSeq(s, k, k + kn - 1),
                       SubSeq(s, k + kn + 1, k + kn + vn), k + kn + 1 + vn>>
                ELSE <<FALSE>>
    IN  IF i = 1 /\ try(1)[1] THEN try(1)
        ELSE IF i <= Len(s) /\ s[i] = "&" THEN try(i + 1)
        ELSE <<FALSE>>

\* queryStems.split(s) from index i on, `from` being where the current
\* unmatched piece began
RECURSIVE QuerySplitFrom(_, _, _)
QuerySplitFrom(s, from, i) ==
    IF i > Len(s) THEN <<SubSeq(s, from, Len(s))>>
    ELSE LET m == QueryStemAt(s, i)
         IN  IF m[1]
             THEN <<SubSeq(s, from, i - 1), m[2], m[3]>> \o QuerySplitFrom(s, m[4], m[4])
             ELSE QuerySplitFrom(s, from, i + 1)

queryStems_split(s) == QuerySplitFrom(s, 1, 1)

\* the elements of queryStems.split(query), recoded and joined
RecodedElements(query, unicode, elements) ==
    IF Len(elements) = 1 THEN uri_recode_typed(query, unicode, {})
    ELSE JoinTexts([i \in 1..((Len(elements) - 1) \div 3) |->
                       JoinTexts(<<uri_recode_typed(elements[3 * i - 1], unicode, {}),
                                   uri_recode_typed(elements[3 * i], unicode, {})>>,
                                 <<"=">>)],
                   <<"&">>)

uri_recode_query_typed(query, unicode) ==
    RecodedElements(query, unicode, queryStems_split(query))

uri_recode_query(query) == uri_recode_query_typed(query, FALSE)

----------------------------------------------------------------------------
(* Literal texts of the source.                                            *)

T_http == <<"h", "t", "t", "p">>
T_https == <<"h", "t", "t", "p", "s">>
T_80 == <<"8", "0">>
T_443 == <<"4", "4", "3">>
T_www == <<"w", "w", "w">>
T_localhost == <<"l", "o", "c", "a", "l", "h", "o", "s", "t">>
Pipe == <<"|">>
SlashSlash == <<"/", "/">>
SchemeSep == <<":", "/", "/">>

\* "k:" for a stem type k
Tag(k) == <<k, ":">>

StemTypes == {"s", "h", "t", "p", "q", "f"}

add_trailing_pipe(lru) == IF EndsWith(lru, Pipe) THEN lru ELSE lru \o Pipe

\* add_trailing_pipe("|".join(texts)): the pipe added is a str literal, the type
\* is that of the join
PipeJoined(texts) ==
    ThenText(JoinTexts(texts, Pipe), LAMBDA lru, u : OkText(add_trailing_pipe(lru), u))

----------------------------------------------------------------------------
(* Stem grammar.                                                           *)

\* lruStems = (?:^|\|)([shtpqf]):
\* the match of lruStems that starts at index i: <<TRUE, type, index after>>
LruStemAt(s, i) ==
    IF i = 1 /\ Len(s) >= 2 /\ s[1] \in StemTypes /\ s[2] = ":"
    THEN <<TRUE, s[1], 3>>
    ELSE IF i + 2 <= Len(s) /\ s[i] = "|" /\ s[i + 1] \in StemTypes /\ s[i + 2] = ":"
    THEN <<TRUE, s[i + 1], i + 3>>
    ELSE <<FALSE>>

RECURSIVE LruSplitFrom(_, _, _)
LruSplitFrom(s, from, i) ==
    IF i > Len(s) THEN <<SubSeq(s, from, Len(s))>>
    ELSE LET m == LruStemAt(s, i)
         IN  IF m[1]
             THEN <<SubSeq(s, from, i - 1), <<m[2]>>>> \o LruSplitFrom(s, m[3], m[3])
             ELSE LruSplitFrom(s, from, i + 1)

\* lruStems.split(s): <<before, type, value, type, value, ...>>
lruStems_split(s) == LruSplitFrom(s, 1, 1)

HexChars == Digits \cup HexLetters

\* length of the prefix of s matching \[[\da-f]*:[\da-f:]*\] (re.I), 0 if none
Ipv6Len(s) ==
    IF s = <<>> \/ s[1] # "[" THEN 0
    ELSE LET n1 == RunLen(s, 2, HexChars)
             n2 == RunLen(s, 3 + n1, HexChars \cup {":"})
         IN  IF 2 + n1 <= Len(s) /\ s[2 + n1] = ":"
                /\ 3 + n1 + n2 <= Len(s) /\ s[3 + n1 + n2] = "]"
             THEN 3 + n1 + n2
             ELSE 0

\* a prefix of s, from index i, matching \d{1,3}\. : the index after it, 0 if none
OctetDot(s, i) ==
    LET n == RunLen(s, i, Digits)
    IN  IF i > 0 /\ n >= 1 /\ n <= 3 /\ i + n <= Len(s) /\ s[i + n] = "." THEN i + n + 1 ELSE 0

\* a prefix of s matches (\d{1,3}\.){3}\d{1,3}
Ipv4Prefix(s) ==
    LET i4 == OctetDot(s, OctetDot(s, OctetDot(s, 1)))
    IN  i4 > 0 /\ RunLen(s, i4, Digits) >= 1

\* special_hosts.match(s): localhost|(\d{1,3}\.){3}\d{1,3}|\[[\da-f]*:[\da-f:]*\], re.I,
\* matched at the start of s only
special_hosts_match(s) ==
    \/ StartsWith(Lower(s), T_localhost)
    \/ Ipv4Prefix(s)
    \/ Ipv6Len(s) > 0

mkStem(k, t) == [k |-> k, t |-> t, stem |-> Tag(k) \o t]

\* the stems of elements = lruStems.split(lru.rstrip("|")), after the checks
StemsOfElements(elements, check) ==
    LET n == Len(elements)
        \* Python indexes from 0: elements[j] is elements[j + 1] here
        bad == n < 6 \/ elements[2] # <<"s">> \/ elements[6] # <<"h">>
    IN  IF ~check /\ n < 2 THEN Ok(<<>>)
        ELSE IF n < 2 \/ elements[1] # <<>> THEN Raise("ValueError")
        ELSE IF check /\ bad /\ n < 5 THEN Raise("IndexError")
        ELSE IF check /\ bad /\ ~special_hosts_match(elements[5]) THEN Raise("ValueError")
        ELSE Ok([i \in 1..((n - 1) \div 2) |->
                    mkStem(elements[2 * i][1], elements[2 * i + 1])])

split_lru_in_stems(lru, check) == StemsOfElements(lruStems_split(RStrip(lru, "|")), check)

\* the values of the stems of type k, in order
RECURSIVE ValuesOf(_, _)
ValuesOf(stems, k) ==
    IF stems = <<>> THEN <<>>
    ELSE (IF stems[1].k = k THEN <<stems[1].t>> ELSE <<>>) \o ValuesOf(Tail(stems), k)

StemTexts(stems) == [i \in 1..Len(stems) |-> stems[i].stem]

\* parent prefixes that stop at the prefix ending after the t stem; C8 must
\* tell it from lru_parent_prefixes
lru_parent_prefixes_to_port(lru) ==
    Then(split_lru_in_stems(lru, TRUE), LAMBDA stems :
        LET lru_arr == Take(StemTexts(stems), Len(stems) - 1)
        IN  Ok([i \in 1..(Len(lru_arr) - 1) |->
                   Join(Take(lru_arr, Len(lru_arr) + 1 - i), Pipe) \o Pipe]))

lru_parent_prefixes(lru) ==
    Then(split_lru_in_stems(lru, TRUE), LAMBDA stems :
        LET lru_arr == Take(StemTexts(stems), Len(stems) - 1)
        IN  Ok([i \in 1..Len(lru_arr) |->
                   Join(Take(lru_arr, Len(lru_arr) + 1 - i), Pipe) \o Pipe]))

----------------------------------------------------------------------------
(* URL -> LRU.                                                             *)

AllDigits(s) == s # <<>> /\ \A i \in 1..Len(s) : s[i] \in Digits

\* lruFullPattern = ^([^:/?#]+):(?://([^/?#]*))?([^?#]*)(?:\?([^#]*))?(?:#(.*))?$
\* lruFullPattern.match(url): the five groups, a group that did not take part
\* (None) being flagged by has*.  The scan goes left to right:
\* the path is url[p0..q0-1]; (?:\?([^#]*))?(?:#(.*))?$ starts at q0
QueryGroups(url, sn, hasA, a0, p0, q0) ==
    LET hasQ == q0 <= Len(url) /\ url[q0] = "?"
        f0 == IF hasQ THEN q0 + 1 + RunLenNot(url, q0 + 1, {"#"}) ELSE q0
    IN  [matched |-> TRUE,
         scheme |-> Take(url, sn),
         hasAuthority |-> hasA,
         authority |-> SubSeq(url, a0, p0 - 1),
         path |-> SubSeq(url, p0, q0 - 1),
         hasQuery |-> hasQ,
         query |-> IF hasQ THEN SubSeq(url, q0 + 1, f0 - 1) ELSE <<>>,
         hasFragment |-> f0 <= Len(url) /\ url[f0] = "#",
         fragment |-> SubSeq(url, f0 + 1, Len(url))]

\* the authority, if any, is url[a0..p0-1]; ([^?#]*) starts at p0
PathGroup(url, sn, hasA, a0, p0) ==
    QueryGroups(url, sn, hasA, a0, p0, p0 + RunLenNot(url, p0, {"?", "#"}))

\* ([^:/?#]+) took the first sn characters; : and (?://([^/?#]*))? follow
AuthorityGroup(url, sn) ==
    IF sn >= 1 /\ sn + 1 <= Len(url) /\ url[sn + 1] = ":"
    THEN IF StartsWithAt(url, SlashSlash, sn + 2)
         THEN PathGroup(url, sn, TRUE, sn + 4,
                        sn + 4 + RunLenNot(url, sn + 4, {"/", "?", "#"}))
         ELSE PathGroup(url, sn, FALSE, sn + 2, sn + 2)
    ELSE [matched |-> FALSE]

lruFullPattern_match(url) == AuthorityGroup(url, RunLenNot(url, 1, {":", "/", "?", "#"}))

\* lruSchemePattern.match(scheme): "https?" matched at the start of scheme
lruSchemePattern_match(scheme) == StartsWith(scheme, T_http)

\* (\[[\da-f]*:[\da-f:]*\]|[^\s:]+)(?::(\d+))?$ matched on the whole of r
HostPortMatch(r) ==
    LET tail(n) == Drop(r, n)
        fits(n) == \/ tail(n) = <<>>
                   \/ tail(n)[1] = ":" /\ AllDigits(Tail(tail(n)))
        res(n) == [matched |-> TRUE, host |-> Take(r, n),
                   hasPort |-> tail(n) # <<>>,
                   port |-> IF tail(n) # <<>> THEN Tail(tail(n)) ELSE <<>>]
        n6 == Ipv6Len(r)
        nh == RunLenNot(r, 1, WhiteSpace \cup {":"})
    IN  IF n6 > 0 /\ fits(n6) THEN res(n6)
        ELSE IF nh >= 1 /\ fits(nh) THEN res(nh)
        ELSE [matched |-> FALSE]

\* lruAuthorityPattern =
\*   ^(?:([^:]+)(?::([^@]+))?\@)?(\[[\da-f]*:[\da-f:]*\]|[^\s:]+)(?::(\d+))?$
\* the text after the user-information part when the user name has u characters,
\* <<FALSE>> when no user-information part with that user name matches
AfterUserInfo(a, u) ==
    IF u + 1 > Len(a) THEN <<FALSE>>
    ELSE IF a[u + 1] = "@" THEN <<TRUE, Drop(a, u + 1)>>
    ELSE IF a[u + 1] = ":"
    THEN LET pn == RunLenNot(a, u + 2, {"@"})
         IN  IF pn >= 1 /\ u + 2 + pn <= Len(a) THEN <<TRUE, Drop(a, u + 2 + pn)>>
             ELSE <<FALSE>>
    ELSE <<FALSE>>

\* lruAuthorityPattern.match(authority) (re.I): host and port groups.  The user
\* name is tried longest first, then the form without user information; good
\* holds the lengths of the user names with which the pattern matches.
AuthorityGroups(a, good) ==
    IF good # {}
    THEN HostPortMatch(AfterUserInfo(a, CHOOSE u \in good : \A v \in good : v <= u)[2])
    ELSE HostPortMatch(a)

lruAuthorityPattern_match(a) ==
    AuthorityGroups(a, {u \in 1..RunLenNot(a, 1, {":"}) :
                           /\ AfterUserInfo(a, u)[1]
                           /\ HostPortMatch(AfterUserInfo(a, u)[2]).matched})

\* the stems "k:" + v for the texts v of list, in order
Tagged(k, list) == [i \in 1..Len(list) |-> Tag(k) \o list[i]]

\* [x for x in list if x]
RECURSIVE NonEmpty(_)
NonEmpty(list) ==
    IF list = <<>> THEN <<>>
    ELSE (IF list[1] # <<>> THEN <<list[1]>> ELSE <<>>) \o NonEmpty(Tail(list))

\* the p tokens of path = uri_recode(path, '/+'), its leading slash dropped
PathTokens(path) ==
    Texts(Tagged("p", Split(IF StartsWith(path.val, <<"/">>) THEN Tail(path.val) ELSE path.val,
                            "/")),
          path.unicode)

\* the LRU of the groups lru of a URL whose authority matched as hostAndPort;
\* the groups have the type of the URL, str(80) and str(443) are str, and the
\* recoded path, query and fragment have the type uri_recode gave them
LruOfGroups(lru, unicode, hostAndPort, encode_utf8) ==
    LET host == Reverse(IF special_hosts_match(hostAndPort.host)
                        THEN <<hostAndPort.host>>
                        ELSE Split(LowerText(hostAndPort.host, unicode), "."))
        port == IF hostAndPort.hasPort THEN hostAndPort.port
                ELSE IF lru.scheme = T_https THEN T_443 ELSE T_80
        tokens == <<OkText(Tag("s") \o LowerText(lru.scheme, unicode), unicode),
                    OkText(Tag("t") \o port, unicode /\ hostAndPort.hasPort)>>
                  \o Texts(Tagged("h", NonEmpty(host)), unicode)
                  \o (IF lru.path # <<>>
                      THEN PathTokens(uri_recode_typed(lru.path, unicode, {"/", "+"}))
                      ELSE <<>>)
                  \o (IF lru.hasQuery
                      THEN <<Prefixed(Tag("q"), uri_recode_query_typed(lru.query, unicode))>>
                      ELSE <<>>)
                  \o (IF lru.hasFragment
                      THEN <<Prefixed(Tag("f"), uri_recode_typed(lru.fragment, unicode, {}))>>
                      ELSE <<>>)
    IN  IF hostAndPort.matched
        \* res_lru = "|".join(tokens); with encode_utf8 the result is a str: the
        \* unicode one encoded, the str one as it is (its encode may raise, which
        \* is passed over)
        THEN ThenText(PipeJoined(tokens), LAMBDA res_lru, u :
                 IF encode_utf8 THEN OkText(Encoded(res_lru, u), FALSE)
                 ELSE OkText(res_lru, u))
        ELSE Raise("ValueError")

\* the LRU of lru = lruFullPattern.match(url)
LruOfMatch(lru, unicode, encode_utf8) ==
    IF /\ lru.matched
       /\ lruSchemePattern_match(lru.scheme)
       /\ lru.hasAuthority /\ lru.authority # <<>>
    THEN LruOfGroups(lru, unicode, lruAuthorityPattern_match(lru.authority), encode_utf8)
    ELSE Raise("ValueError")

url_to_lru_typed(url, unicode, encode_utf8) ==
    LruOfMatch(lruFullPattern_match(url), unicode, encode_utf8)

url_to_lru(url) == url_to_lru_typed(url, FALSE, TRUE)

----------------------------------------------------------------------------
(* LRU -> URL.                                                             *)

\* lruPattern = ^s:[^|]+(\|t:[^|]+)?(\|h:[^|]+)+
\* index after a stem "|k:value" with a non-empty value that starts at i, 0 if none
PipeStemEnd(s, k, i) ==
    LET n == RunLenNot(s, i + 3, {"|"})
    IN  IF StartsWithAt(s, Pipe \o Tag(k), i) /\ n >= 1 THEN i + 3 + n ELSE 0

\* lruPattern.match(lru) is not None
lruPattern_match(lru) ==
    LET sn == RunLenNot(lru, 3, {"|"})
        afterS == 3 + sn
        afterT == IF PipeStemEnd(lru, "t", afterS) > 0
                  THEN PipeStemEnd(lru, "t", afterS) ELSE afterS
    IN  /\ StartsWith(lru, Tag("s"))
        /\ sn >= 1
        /\ PipeStemEnd(lru, "h", afterT) > 0

\* url is built by +=: the scheme, the host and the port have the type of the
\* LRU, the recoded path, query and fragment the type uri_recode gave them;
\* with encode_utf8 the result is a str, as in url_to_lru
lru_to_url_typed(lru, unicode, encode_utf8) ==
    IF ~lruPattern_match(lru) THEN Raise("ValueError")
    ELSE Then(split_lru_in_stems(RStrip(lru, "|"), TRUE), LAMBDA lru_list :
        LET stem_types == {lru_list[i].k : i \in 1..Len(lru_list)}
            h == Reverse(ValuesOf(lru_list, "h"))
            port == ValuesOf(lru_list, "t")[1]
            path == Join(ValuesOf(lru_list, "p"), <<"/">>)
            query == ValuesOf(lru_list, "q")[1]
            fragment == ValuesOf(lru_list, "f")[1]
        IN  ThenText(
                JoinTexts(
                    <<OkText(ValuesOf(lru_list, "s")[1] \o SchemeSep \o Join(h, <<".">>)
                             \o (IF "t" \in stem_types /\ port # <<>>
                                    /\ port # T_80 /\ port # T_443
                                 THEN <<":">> \o port ELSE <<>>),
                             unicode)>>
                    \o (IF "p" \in stem_types
                        THEN (IF path # <<>>
                              THEN <<Prefixed(<<"/">>, uri_recode_typed(path, unicode, {"/", "+"}))>>
                              ELSE <<OkText(<<"/">>, FALSE)>>)
                        ELSE <<>>)
                    \o (IF "q" \in stem_types
                        THEN <<Prefixed(<<"?">>, uri_recode_query_typed(query, unicode))>>
                        ELSE <<>>)
                    \o (IF "f" \in stem_types
                        THEN <<Prefixed(<<"#">>, uri_recode_typed(fragment, unicode, {}))>>
                        ELSE <<>>),
                    <<>>),
                LAMBDA url, u : IF encode_utf8 THEN OkText(Encoded(url, u), FALSE)
                                ELSE OkText(url, u)))

lru_to_url(lru) == lru_to_url_typed(lru, FALSE, TRUE)

----------------------------------------------------------------------------
(* The cleaning pipeline.                                                  *)

T_t80 == Tag("t") \o T_80
T_t443 == Tag("t") \o T_443

\* [x for x in list if x not in drop]
RECURSIVE Without(_, _)
Without(list, drop) ==
    IF list = <<>> THEN <<>>
    ELSE (IF list[1] \in drop THEN <<>> ELSE <<list[1]>>) \o Without(Tail(list), drop)

\* Removing port if 80 (http) or 443 (https); the stems have the type of the LRU
lru_strip_standard_ports_typed(lru, unicode) ==
    Then(split_lru_in_stems(lru, FALSE), LAMBDA stems :
        PipeJoined(Texts(Without(StemTexts(stems), {T_t80, T_t443}), unicode)))

lru_strip_standard_ports(lru) == lru_strip_standard_ports_typed(lru, FALSE)

lru_lowerize_host_typed(lru, unicode) ==
    Then(split_lru_in_stems(lru, TRUE), LAMBDA stems :
        PipeJoined(Texts([i \in 1..Len(stems) |->
                             IF stems[i].k \in {"s", "h"} THEN LowerText(stems[i].stem, unicode)
                             ELSE stems[i].stem],
                         unicode)))

lru_lowerize_host(lru) == lru_lowerize_host_typed(lru, FALSE)

\* re_host_trailing_slash = (h:[^\|]*)\|p:\|?$ , replaced by its group 1: a match
\* starts at an "h:" whose run of non-pipe characters is followed by "|p:" or
\* "|p:|" and the end of the text; the result has the type of the LRU
lru_strip_host_trailing_slash(lru) ==
    LET runEnd(i) == i + 2 + RunLenNot(lru, i + 2, {"|"})
        matchAt(i) == /\ StartsWithAt(lru, Tag("h"), i)
                      /\ Drop(lru, runEnd(i) - 1) \in {Pipe \o Tag("p"), Pipe \o Tag("p") \o Pipe}
        starts == {i \in 1..Len(lru) : matchAt(i)}
    IN  IF starts = {} THEN lru
        ELSE Take(lru, runEnd(CHOOSE i \in starts : \A j \in starts : i <= j) - 1)

\* "%s:%s" % (k, uri_recode(t, ...)) for the p, q and f stems: unicode when k
\* (of the type of the LRU) or the recoded text is; the other stems as they are
lru_uriencode_typed(lru, unicode) ==
    LET recoded(s) ==
            IF s.k = "p"
            THEN JoinTexts(<<OkText(<<"p">>, unicode),
                             uri_recode_typed(s.t, unicode, {"/", "+"})>>, <<":">>)
            ELSE IF s.k = "q"
            THEN JoinTexts(<<OkText(<<"q">>, unicode),
                             uri_recode_query_typed(s.t, unicode)>>, <<":">>)
            ELSE IF s.k = "f"
            THEN JoinTexts(<<OkText(<<"f">>, unicode),
                             uri_recode_typed(s.t, unicode, {})>>, <<":">>)
            ELSE OkText(s.stem, unicode)
    IN  Then(split_lru_in_stems(lru, TRUE), LAMBDA stems :
            PipeJoined([i \in 1..Len(stems) |-> recoded(stems[i])]))

lru_uriencode(lru) == lru_uriencode_typed(lru, FALSE)

\* Removing subdomain if www (not part of lru_clean)
lru_strip_www_typed(lru, unicode) ==
    Then(split_lru_in_stems(lru, TRUE), LAMBDA stems :
        PipeJoined(Texts(Without(StemTexts(stems), {Tag("h") \o T_www}), unicode)))

lru_strip_www(lru) == lru_strip_www_typed(lru, FALSE)

lru_clean_typed(lru, unicode) ==
    ThenText(lru_strip_standard_ports_typed(lru, unicode), LAMBDA ports, u1 :
    ThenText(lru_lowerize_host_typed(ports, u1), LAMBDA lowered, u2 :
    ThenText(lru_uriencode_typed(lru_strip_host_trailing_slash(lowered), u2), LAMBDA encoded, u3 :
    OkText(add_trailing_pipe(encoded), u3))))

lru_clean(lru) == lru_clean_typed(lru, FALSE)

url_to_lru_clean_typed(url, unicode, encode_utf8) ==
    ThenText(url_to_lru_typed(url, unicode, encode_utf8), LAMBDA lru, u :
        lru_clean_typed(lru, u))

url_to_lru_clean(url) == url_to_lru_clean_typed(url, FALSE, TRUE)

----------------------------------------------------------------------------
(* Heads and nodes.                                                        *)

\* re_host_lru = (([sth]:[^|]*(\||$))+) with re.I, matched at the start: the
\* index after the run of s/t/h stems that starts at i (i itself when none)
RECURSIVE HostRunEnd(_, _)
HostRunEnd(lru, i) ==
    IF i + 1 <= Len(lru) /\ LowerChar(lru[i]) \in {"s", "t", "h"} /\ lru[i + 1] = ":"
    THEN LET e == i + 2 + RunLenNot(lru, i + 2, {"|"})
         IN  IF e <= Len(lru) THEN HostRunEnd(lru, e + 1) ELSE e
    ELSE i

\* a loop that keeps the last exception that lru starts with, whatever its
\* length; C5 must tell it from LongestException
RECURSIVE LastException(_, _, _)
LastException(lru, precision_exceptions, possible_result) ==
    IF precision_exceptions = <<>> THEN possible_result
    ELSE LastException(lru, Tail(precision_exceptions),
             IF StartsWith(lru, precision_exceptions[1])
             THEN precision_exceptions[1] ELSE possible_result)

\* precision_exceptions is a list; the loop keeps the first of the longest
\* exceptions that lru starts with
RECURSIVE LongestException(_, _, _)
LongestException(lru, precision_exceptions, possible_result) ==
    IF precision_exceptions = <<>> THEN possible_result
    ELSE LongestException(lru, Tail(precision_exceptions),
             IF /\ StartsWith(lru, precision_exceptions[1])
                /\ Len(precision_exceptions[1]) > Len(possible_result)
             THEN precision_exceptions[1] ELSE possible_result)

lru_get_head(lru, precision_exceptions) ==
    LET possible_result == LongestException(lru, precision_exceptions, <<>>)
        e == HostRunEnd(lru, 1)
    IN  IF possible_result # <<>> THEN Ok(possible_result)
        \* re_host_lru.match(lru) is None: None.group raises
        ELSE IF e = 1 THEN Raise("AttributeError")
        ELSE Ok(add_trailing_pipe(Take(lru, e - 1)))

\* the stems of lru.replace(lru_head, '')
StemsAfterHead(lru, lru_head) == split_lru_in_stems(Replace(lru, lru_head, <<>>), FALSE)

lru_is_node(lru, precision_limit, precision_exceptions) ==
    Then(lru_get_head(lru, precision_exceptions), LAMBDA lru_head :
    Then(StemsAfterHead(lru, lru_head), LAMBDA stems :
    Ok(Len(stems) <= precision_limit)))

lru_get_node(lru, precision_limit, precision_exceptions) ==
    Then(lru_get_head(lru, precision_exceptions), LAMBDA lru_head :
    Then(StemsAfterHead(lru, lru_head), LAMBDA stems :
        LET m == IF Len(stems) < precision_limit THEN Len(stems) ELSE precision_limit
        IN  Ok(add_trailing_pipe(Join(<<Strip(lru_head, "|")>> \o Take(StemTexts(stems), m),
                                      Pipe)))))

----------------------------------------------------------------------------
(* Variations (https=True, www=True).                                      *)

T_sHttp == Tag("s") \o T_http \o Pipe
T_sHttps == Tag("s") \o T_https \o Pipe
T_slashWww == SlashSlash \o T_www \o <<".">>

\* lru2: the LRU with the other scheme (left as it is when it has neither)
OtherScheme(lru) ==
    IF Contains(lru, T_sHttp) THEN ReplaceFirst(lru, T_sHttp, T_sHttps)
    ELSE ReplaceFirst(lru, T_sHttps, T_sHttp)

\* url.replace("//www.", "//", 1) when "//www." is in the first URL, else
\* url.replace("//", "//www.", 1)
ToggleWww(url, hasWww) ==
    IF hasWww THEN ReplaceFirst(url, T_slashWww, SlashSlash)
    ELSE ReplaceFirst(url, SlashSlash, T_slashWww)

\* lru is a str; encode_utf8 is False, so that the URLs and the LRUs made of
\* them keep the type they were built with
lru_variations(lru) ==
    ThenText(lru_to_url_typed(lru, FALSE, FALSE), LAMBDA url, u1 :
        \* neither branch assigns lru2: "if lru2" raises
        IF ~Contains(lru, T_sHttp) /\ ~Contains(lru, T_sHttps) THEN Raise("UnboundLocalError")
        ELSE ThenText(lru_to_url_typed(OtherScheme(lru), FALSE, FALSE), LAMBDA url2, u2 :
            IF Count(lru, Pipe \o Tag("h")) = 1 THEN Ok(<<lru, OtherScheme(lru)>>)
            ELSE Then(url_to_lru_clean_typed(ToggleWww(url, Contains(url, T_slashWww)),
                                             u1, FALSE), LAMBDA v1 :
                 Then(url_to_lru_clean_typed(ToggleWww(url2, Contains(url, T_slashWww)),
                                             u2, FALSE), LAMBDA v2 :
                 Ok(<<lru, OtherScheme(lru), v1, v2>>)))))

----------------------------------------------------------------------------
(* The callers' inputs.                                                    *)

\* host labels per host, path segments per path, precision limit, and
\* precision exceptions per call
MaxHost == 2
MaxPath == 2
MaxLimit == 3
MaxExc == 2

\* the lists over S with lo..hi elements
Lists(S, lo, hi) == UNION {[1..k -> S] : k \in lo..hi}

LruText(stems) == Join(stems, Pipe) \o Pipe

\* a label with a byte that is not ASCII, a segment with an escape that is not UTF-8
Labels == {<<"a">>, <<"C", "o">>, T_www, <<"xE9">>}
Segments == {<<>>, <<"a">>, <<"%", "4", "1">>, <<"%", "E", "9">>}
T_81 == <<"8", "1">>
T_query == <<"a", "=", "b", "&", "c">>

\* hosts as lists of labels, in URL order
HostLists == Lists(Labels, 1, MaxHost) \cup {<<T_localhost>>}
PathLists == Lists(Segments, 0, MaxPath)

(* URLs *)
UrlSchemes == {T_http, T_https, T_http \o <<"x">>, <<"f", "t", "p">>}
UrlPorts == {<<>>, <<":">> \o T_80, <<":">> \o T_443, <<":">> \o T_81}
UrlPaths == {IF p = <<>> THEN <<>> ELSE <<"/">> \o Join(p, <<"/">>) : p \in PathLists}
UrlQueries == {<<>>, <<"?">>, <<"?">> \o T_query, <<"?", "a", "=", "%", "2", "6">>}
UrlFragments == {<<>>, <<"#">>, <<"#", "x">>}
UrlAuthorities == {<<"a", ".", "C", "o">>,
                   <<"u", ":", "p", "@", "w", "w", "w", ".", "a", ":", "8", "1">>}

UrlInputs ==
    {s \o SchemeSep \o Join(h, <<".">>) \o p \o t :
        s \in UrlSchemes, h \in HostLists, p \in UrlPorts, t \in {<<>>, <<"/">>}}
    \cup
    {s \o SchemeSep \o a \o p \o q \o f :
        s \in {T_http, T_https}, a \in UrlAuthorities, p \in UrlPaths,
        q \in UrlQueries, f \in UrlFragments}

(* LRUs *)
LruSchemes == {T_http, T_https, <<"H", "T", "T", "P">>}
\* zero or one t stem
LruPorts == {<<>>, <<T_80>>, <<T_443>>, <<T_81>>}
LruQueries == {<<>>, <<<<>>>>, <<T_query>>}
LruFragments == {<<>>, <<<<>>>>, <<<<"%", "4", "1">>>>}

LruHeads ==
    {<<Tag("s") \o s>> \o Tagged("t", t) \o Tagged("h", Reverse(h)) :
        s \in LruSchemes, t \in LruPorts, h \in HostLists}
LruTails ==
    {Tagged("p", p) \o Tagged("q", q) \o Tagged("f", f) :
        p \in PathLists, q \in LruQueries, f \in LruFragments}
FewHeads == {<<Tag("s") \o T_http, Tag("t") \o T_80, Tag("h") \o <<"C", "o">>, Tag("h") \o <<"a">>>>,
             <<Tag("s") \o T_https, Tag("t") \o T_81, Tag("h") \o T_localhost>>}
FewTails == {<<>>, <<Tag("p")>>, <<Tag("p") \o <<"a">>, Tag("q") \o T_query>>}

LruInputs ==
    {LruText(hd \o tl) : hd \in LruHeads, tl \in FewTails}
    \cup {LruText(hd \o tl) : hd \in FewHeads, tl \in LruTails}

(* LRUs and precision exceptions for head and node resolution *)
NodeHead == <<<<"s", ":", "a">>, <<"t", ":", "1">>, <<"h", ":", "b">>>>
NodeLrus ==
    {LruText(NodeHead \o Tagged("p", p)) : p \in Lists({<<>>, <<"c">>}, 0, MaxPath)}
    \cup {\* no trailing pipe
          Join(NodeHead \o <<<<"p", ":", "c">>>>, Pipe),
          \* no s, t or h stem in front
          LruText(<<<<"p", ":", "c">>, <<"h", ":", "b">>>>),
          \* the head run occurs twice
          LruText(<<<<"s", ":", "a">>, <<"h", ":", "b">>, <<"p", ":", "c">>,
                    <<"s", ":", "a">>, <<"h", ":", "b">>, <<"p", ":", "c">>>>),
          \* a path segment that reads as the scheme stem
          LruText(NodeHead \o <<<<"p", ":", "s", ":", "a">>, <<"p", ":", "c">>>>)}

\* the candidate exceptions for lru: its prefixes that end with a pipe, one
\* that ends inside its second stem, the empty text and a text it does not
\* start with
Candidates(lru) ==
    {Take(lru, i) : i \in {j \in 1..Len(lru) : lru[j] = "|"}}
    \cup {Take(lru, RunLenNot(lru, 1, {"|"}) + 3), <<>>, <<"s", ":", "z", "|">>}

ExceptionLists(lru, n) == Lists(Candidates(lru), 0, n)

----------------------------------------------------------------------------
(* The calls.  fn is the function last called; args its arguments (the URL  *)
(* or LRU in text with its type, and for the node functions precision_limit *)
(* and precision_exceptions); ret what it returned (a text with its type, a *)
(* list of texts or a boolean, by function) or the exception it raised;     *)
(* prev the call before it, when the last call was made on that call's      *)
(* result.                                                                  *)

Args(text, unicode, limit, exceptions) ==
    [text |-> text, unicode |-> unicode, limit |-> limit, exceptions |-> exceptions]
NoArgs == Args(<<>>, FALSE, 0, <<>>)

Result(err, text, unicode, list, bool) ==
    [err |-> err, text |-> text, unicode |-> unicode, list |-> list, bool |-> bool]
NoResult == Result("unset", <<>>, FALSE, <<>>, FALSE)
\* the result of a function that returns a text, a list of texts, a boolean
TextResult(r) ==
    Result(r.err, IF r.err = "none" THEN r.val ELSE <<>>, r.err = "none" /\ r.unicode,
           <<>>, FALSE)
ListResult(r) == Result(r.err, <<>>, FALSE, IF r.err = "none" THEN r.val ELSE <<>>, FALSE)
BoolResult(r) == Result(r.err, <<>>, FALSE, <<>>, r.err = "none" /\ r.val)

NoCall == [fn |-> "idle", args |-> NoArgs, ret |-> NoResult]
Last == [fn |-> fn, args |-> args, ret |-> ret]

UrlToLru ==
    /\ fn = "idle"
    /\ \E url \in UrlInputs :
        /\ fn' = "url_to_lru" /\ args' = Args(url, FALSE, 0, <<>>)
        /\ ret' = TextResult(url_to_lru(url))
    /\ prev' = NoCall

LruToUrl ==
    /\ fn = "idle"
    /\ \E lru \in LruInputs :
        /\ fn' = "lru_to_url" /\ args' = Args(lru, FALSE, 0, <<>>)
        /\ ret' = TextResult(lru_to_url(lru))
    /\ prev' = NoCall

\* lru_to_url(url_to_lru(url))
LruToUrlBack ==
    /\ fn = "url_to_lru" /\ ret.err = "none" /\ prev = NoCall
    /\ fn' = "lru_to_url" /\ args' = Args(ret.text, ret.unicode, 0, <<>>)
    /\ ret' = TextResult(lru_to_url_typed(ret.text, ret.unicode, TRUE))
    /\ prev' = Last

LruStripStandardPorts ==
    /\ fn = "idle"
    /\ \E lru \in LruInputs :
        /\ fn' = "lru_strip_standard_ports" /\ args' = Args(lru, FALSE, 0, <<>>)
        /\ ret' = TextResult(lru_strip_standard_ports(lru))
    /\ prev' = NoCall

LruClean ==
    /\ fn = "idle"
    /\ \E lru \in LruInputs :
        /\ fn' = "lru_clean" /\ args' = Args(lru, FALSE, 0, <<>>)
        /\ ret' = TextResult(lru_clean(lru))
    /\ prev' = NoCall

\* lru_clean(lru_clean(lru))
LruCleanAgain ==
    /\ fn = "lru_clean" /\ ret.err = "none" /\ prev = NoCall
    /\ fn' = "lru_clean" /\ args' = Args(ret.text, ret.unicode, 0, <<>>)
    /\ ret' = TextResult(lru_clean_typed(ret.text, ret.unicode))
    /\ prev' = Last

LruParentPrefixes ==
    /\ fn = "idle"
    /\ \E lru \in LruInputs :
        /\ fn' = "lru_parent_prefixes" /\ args' = Args(lru, FALSE, 0, <<>>)
        /\ ret' = ListResult(lru_parent_prefixes(lru))
    /\ prev' = NoCall

LruGetHead ==
    /\ fn = "idle"
    /\ \E lru \in NodeLrus : \E exc \in ExceptionLists(lru, MaxExc) :
        /\ fn' = "lru_get_head" /\ args' = Args(lru, FALSE, 0, exc)
        /\ ret' = TextResult(lru_get_head(lru, exc))
    /\ prev' = NoCall

LruIsNode ==
    /\ fn = "idle"
    /\ \E lru \in NodeLrus : \E limit \in 0..MaxLimit : \E exc \in ExceptionLists(lru, 1) :
        /\ fn' = "lru_is_node" /\ args' = Args(lru, FALSE, limit, exc)
        /\ ret' = BoolResult(lru_is_node(lru, limit, exc))
    /\ prev' = NoCall

LruGetNode ==
    /\ fn = "idle"
    /\ \E lru \in NodeLrus : \E limit \in 0..MaxLimit : \E exc \in ExceptionLists(lru, 1) :
        /\ fn' = "lru_get_node" /\ args' = Args(lru, FALSE, limit, exc)
        /\ ret' = TextResult(lru_get_node(lru, limit, exc))
    /\ prev' = NoCall

LruVariations ==
    /\ fn = "idle"
    /\ \E lru \in LruInputs :
        /\ fn' = "lru_variations" /\ args' = Args(lru, FALSE, 0, <<>>)
        /\ ret' = ListResult(lru_variations(lru))
    /\ prev' = NoCall

\* the caller is done with the result
Return == fn # "idle" /\ fn' = "idle" /\ args' = NoArgs /\ ret' = NoResult /\ prev' = NoCall

Init == fn = "idle" /\ args = NoArgs /\ ret = NoResult /\ prev = NoCall

Next ==
    \/ UrlToLru \/ LruToUrl \/ LruToUrlBack
    \/ LruStripStandardPorts \/ LruClean \/ LruCleanAgain
    \/ LruParentPrefixes
    \/ LruGetHead \/ LruIsNode \/ LruGetNode
    \/ LruVariations
    \/ Return

Spec == Init /\ [][Next]_vars


----------------------------------------------------------------------------
(* What the properties speak of.                                           *)

\* the number of stems of a text, legal or not: the matches of lruStems
StemCount(text) == (Len(lruStems_split(RStrip(text, "|"))) - 1) \div 2

\* the stems of a text whose every pipe starts a stem
StemsOf(text) == split_lru_in_stems(text, FALSE).val

HasStems(text) == split_lru_in_stems(text, FALSE).err = "none"

KindRank(k) ==
    CASE k = "s" -> 1 [] k = "t" -> 2 [] k = "h" -> 3
      [] k = "p" -> 4 [] k = "q" -> 5 [] k = "f" -> 6

\* one s stem, one t stem, one or more h stems, then p stems, at most one q
\* stem and at most one f stem
WellTyped(lru) ==
    /\ HasStems(lru)
    /\ LET st == StemsOf(lru)
           n(k) == Len(ValuesOf(st, k))
       IN  /\ Len(st) >= 3
           /\ st[1].k = "s" /\ st[2].k = "t" /\ st[3].k = "h"
           /\ n("s") = 1 /\ n("t") = 1 /\ n("q") <= 1 /\ n("f") <= 1
           /\ \A i \in 1..(Len(st) - 1) : KindRank(st[i].k) <= KindRank(st[i + 1].k)

\* a well-typed LRU of scheme http or https
HttpLru(lru) == WellTyped(lru) /\ StemsOf(lru)[1].t \in {T_http, T_https}

StandardPort(scheme) == IF scheme = T_https THEN T_443 ELSE T_80

\* a URL taken apart: scheme, host labels (lowercased), effective port, path
\* segments, query and fragment, the escapes decoded
UrlParts(url) ==
    LET m == lruFullPattern_match(url)
        a == lruAuthorityPattern_match(m.authority)
        segs == IF m.path = <<>> THEN <<>> ELSE Split(Tail(m.path), "/")
    IN  [scheme |-> m.scheme,
         host |-> Split(Lower(a.host), "."),
         port |-> IF a.hasPort THEN a.port ELSE StandardPort(m.scheme),
         path |-> [i \in 1..Len(segs) |-> uri_decode(segs[i]).val],
         hasQuery |-> m.hasQuery,
         query |-> uri_decode(m.query).val,
         hasFragment |-> m.hasFragment,
         fragment |-> uri_decode(m.fragment).val]

Parses(url) ==
    /\ lruFullPattern_match(url).matched
    /\ lruFullPattern_match(url).hasAuthority
    /\ lruAuthorityPattern_match(lruFullPattern_match(url).authority).matched

SameResource(u, v) == Parses(u) /\ Parses(v) /\ UrlParts(u) = UrlParts(v)

SchemeOf(url) == Take(url, RunLenNot(url, 1, {":"}))

----------------------------------------------------------------------------
(* Properties.                                                             *)

\* C1: decoding the LRU of an accepted http/https URL gives a URL of the same
\* resource: same scheme, host labels, effective port, path segments, and the
\* same presence and value of query and fragment.
C1_RoundTrip ==
    (/\ fn = "lru_to_url" /\ prev.fn = "url_to_lru"
     /\ SchemeOf(prev.args.text) \in {T_http, T_https})
    => ret.err = "none" /\ SameResource(prev.args.text, ret.text)

\* C2: lru_clean is idempotent: cleaning a cleaned LRU returns, and returns
\* an LRU equal to it (a str and a unicode of the same characters are equal).
C2_CleanIdempotent ==
    (fn = "lru_clean" /\ prev.fn = "lru_clean")
    => ret.err = "none" /\ ret.text = prev.ret.text

\* C3: lru_clean never raises on a well-typed stem sequence.
C3_CleanNeverFails ==
    (fn = "lru_clean" /\ prev = NoCall /\ WellTyped(args.text))
    => ret.err = "none" /\ EndsWith(ret.text, Pipe)

\* C4: port stripping (alone and in lru_clean) removes the t stem exactly when
\* it is the standard port of the LRU's own scheme.
C4_OwnSchemePortOnly ==
    (/\ fn \in {"lru_strip_standard_ports", "lru_clean"} /\ prev = NoCall
     /\ ret.err = "none" /\ HttpLru(args.text))
    => LET st == StemsOf(args.text)
       IN  (ValuesOf(StemsOf(ret.text), "t") = <<>>) <=> (st[2].t = StandardPort(st[1].t))

\* the exceptions of the list that are not empty and that lru starts with
Matching(lru, exc) ==
    {e \in {exc[i] : i \in 1..Len(exc)} : e # <<>> /\ StartsWith(lru, e)}

\* the leading stems of kind s, t or h
RECURSIVE HostRun(_)
HostRun(stems) ==
    IF stems # <<>> /\ stems[1].k \in {"s", "t", "h"}
    THEN <<stems[1].stem>> \o HostRun(Tail(stems))
    ELSE <<>>

\* C5: lru_get_head returns the longest exception that the LRU starts with,
\* verbatim and whatever the order of the list; when there is none it returns
\* the leading run of s, t and h stems with a trailing pipe.  (Stated of LRUs
\* that have such a run or a matching exception.)
C5_LongestPrefixWins ==
    (/\ fn = "lru_get_head"
     /\ (Matching(args.text, args.exceptions) # {} \/ HostRun(StemsOf(args.text)) # <<>>))
    => LET m == Matching(args.text, args.exceptions)
       IN  IF m # {}
           THEN ret = TextResult(Ok(CHOOSE e \in m : \A d \in m : Len(d) <= Len(e)))
           ELSE ret = TextResult(Ok(LruText(HostRun(StemsOf(args.text)))))

\* two exceptions match, the longer one listed first, and it is the head
C5_Witness ==
    /\ fn = "lru_get_head"
    /\ Len(args.exceptions) = 2
    /\ Cardinality(Matching(args.text, args.exceptions)) = 2
    /\ Len(args.exceptions[1]) > Len(args.exceptions[2])
    /\ Len(args.exceptions[1]) > Len(LruText(HostRun(StemsOf(args.text))))
    /\ ret = TextResult(Ok(args.exceptions[1]))

\* the stems that come after the head at the start of the LRU
StemsBeyondHead(lru, head) ==
    IF StartsWith(lru, head) THEN StemCount(Drop(lru, Len(head))) ELSE StemCount(lru)

\* C6: lru_is_node is true exactly when the number of stems after the resolved
\* head, stripped at the start of the LRU only, is at most precision_limit.
C6_NodeWithinLimit ==
    (fn = "lru_is_node" /\ lru_get_head(args.text, args.exceptions).err = "none")
    => ret = BoolResult(Ok(StemsBeyondHead(args.text, lru_get_head(args.text, args.exceptions).val)
                         <= args.limit))

\* C7: lru_get_head, lru_is_node and lru_get_node never raise.
C7_HeadNodeNeverRaise ==
    fn \in {"lru_get_head", "lru_is_node", "lru_get_node"} => ret.err = "none"

\* the entries of lru_parent_prefixes are the stem prefixes of the LRU, longest
\* first, from the LRU without its last stem on, one stem less per entry
ShrinkingPrefixes(lru, entries) ==
    LET st == StemTexts(StemsOf(lru))
        n == Len(st)
    IN  /\ entries # <<>> => entries[1] \o st[n] \o Pipe = LruText(st)
        /\ \A i \in 1..(Len(entries) - 1) :
               entries[i] = entries[i + 1] \o st[n - i] \o Pipe

\* C8 as the specification states it: the last entry of lru_parent_prefixes
\* is the prefix that ends after the t stem (four entries for six stems).
C8_EndsAfterPort ==
    (fn = "lru_parent_prefixes" /\ ret.err = "none" /\ WellTyped(args.text))
    => /\ ShrinkingPrefixes(args.text, ret.list)
       /\ Len(ret.list) = Len(StemsOf(args.text)) - 2
       /\ ret.list[Len(ret.list)] = LruText(Take(StemTexts(StemsOf(args.text)), 2))

\* C8 (amended): the last entry of lru_parent_prefixes is the prefix that
\* holds the s stem alone: n - 1 entries for n stems, five for six stems.
C8_EndsAfterScheme ==
    (fn = "lru_parent_prefixes" /\ ret.err = "none")
    => /\ ShrinkingPrefixes(args.text, ret.list)
       /\ Len(ret.list) = Len(StemsOf(args.text)) - 1
       /\ ret.list # <<>> => ret.list[Len(ret.list)] = LruText(<<StemTexts(StemsOf(args.text))[1]>>)

\* the prefixes of a six-stem LRU
C8_Witness ==
    /\ fn = "lru_parent_prefixes" /\ ret.err = "none"
    /\ WellTyped(args.text)
    /\ Len(StemsOf(args.text)) = 6
    /\ Len(ret.list) = 5

\* the www label (the last h stem) removed if there, added if not
WwwToggled(labels) ==
    IF labels # <<>> /\ labels[Len(labels)] = T_www
    THEN Take(labels, Len(labels) - 1)
    ELSE labels \o <<T_www>>

\* C9: lru_variations of a valid http/https LRU returns, without raising, two
\* or four distinct LRUs: the input and its scheme-flipped counterpart, and,
\* unless the host has one h stem, their www-toggled forms.
C9_Variations ==
    (fn = "lru_variations" /\ HttpLru(args.text))
    => LET lru == args.text
           st == StemsOf(lru)
           flip(s) == IF s = T_http THEN T_https ELSE T_http
           hosts(l) == ValuesOf(StemsOf(l), "h")
           scheme(l) == ValuesOf(StemsOf(l), "s")
           v == ret.list
       IN  /\ ret.err = "none"
           /\ Len(v) = (IF Len(hosts(lru)) = 1 THEN 2 ELSE 4)
           /\ \A i, j \in 1..Len(v) : i # j => v[i] # v[j]
           /\ v[1] = lru
           /\ v[2] = LruText(<<Tag("s") \o flip(st[1].t)>> \o Tail(StemTexts(st)))
           /\ \A i \in 3..Len(v) :
                  /\ lruPattern_match(v[i]) /\ HasStems(v[i])
                  /\ scheme(v[i]) = scheme(v[i - 2])
                  /\ hosts(v[i]) = WwwToggled([k \in 1..Len(hosts(lru)) |-> Lower(hosts(lru)[k])])

\* C10: url_to_lru raises ValueError unless the scheme is exactly http or
\* https, and an accepted URL gets the stem s:http or s:https and the t stem
\* of its explicit port, else of 80 for http and 443 for https.
C10_HttpOnly ==
    fn = "url_to_lru"
    => /\ SchemeOf(args.text) \notin {T_http, T_https} => ret.err = "ValueError"
       /\ ret.err = "none" =>
              /\ StemsOf(ret.text)[1].t \in {T_http, T_https}
              /\ StemsOf(ret.text)[2].k = "t"
              /\ StemsOf(ret.text)[2].t = UrlParts(args.text).port

============================================================================
